---- MODULE Spec2Model ----
(***************************************************************************)
(* Session lifecycle and WebSocket fan-out of the job-nova backend:        *)
(*   backend/app/websocket.py      ConnectionManager, websocket_endpoint,  *)
(*                                 update_session_status                   *)
(*   backend/app/routers/avatar.py generate_avatar, get_avatar_status,     *)
(*                                 _process_avatar_generation              *)
(*                                                                         *)
(* Scheduling is asyncio's: one thread, a coroutine runs until it awaits.  *)
(* Each action below is the code a coroutine runs between two suspension   *)
(* points.  A send_json hands its message to the transport when it is      *)
(* called (the channel's inbox grows then); the coroutine may be suspended *)
(* in the send before it returns.  A send to a channel whose peer is gone  *)
(* raises; a send to a live channel succeeds.                              *)
(***************************************************************************)
EXTENDS Integers, Sequences, FiniteSets, TLC

\* ------------------------------------------------------------- bounds
NumSessions == 2
NumChannels == 2
MaxClientMsgs == 1
MaxFailures == 1
MaxUpdates == 2

Sessions == 1..NumSessions
Channels == 1..NumChannels

\* ------------------------------------------------------ dictionaries
\* A Python dict over the keys the code uses is a function on Keys; a key the
\* dict does not hold maps to Missing(k).
Keys == {"status", "progress", "tavus_replica_id", "video_url",
         "room_name", "livekit_url", "error"}

Missing(k) == IF k = "progress" THEN -1 ELSE "absent"

HasKey(d, k) == d[k] # Missing(k)

Dict(f) == [k \in Keys |-> IF k \in DOMAIN f THEN f[k] ELSE Missing(k)]

EmptyDict == [k \in Keys |-> Missing(k)]

Statuses == {"pending", "generating", "ready", "error"}

\* The order of the status values: pending < generating < {ready, error}.
StatusIndex(st) ==
    IF st = "pending" THEN 0 ELSE IF st = "generating" THEN 1 ELSE 2

Terminal(st) == st \in {"ready", "error"}

\* f with key k bound to v (a dict or registry assignment f[k] = v).
Put(f, k, v) == [x \in DOMAIN f \cup {k} |-> IF x = k THEN v ELSE f[x]]

\* f without key k (del f[k]).
Del(f, k) == [x \in DOMAIN f \ {k} |-> f[x]]

\* ------------------------------------------------- provider results
\* What tavus_service.generate_avatar and livekit_service.create_room hand
\* back to _process_avatar_generation, and the text of the errors they raise.
TavusResults == {[tavus_replica_id |-> "r1", video_url |-> "a1"]}
RoomResults == {[room_name |-> "room_1", url |-> "wss://lk"]}
NoResult == [tavus_replica_id |-> "absent", video_url |-> "absent"]
TavusErrors == {"quota exceeded"}
RoomErrors == {"room failed"}
SetChanged == "Set changed size during iteration"

\* ------------------------------------------------------------- state
VARIABLES
    session_data,        \* manager.session_data: session id -> snapshot dict
    active_connections,  \* manager.active_connections: session id -> set of channels
    bc,                  \* per session: the broadcast_to_session call in progress
    pc,                  \* per session: where its request / background task stands
    tavus_result,        \* per session: the task's local tavus_result
    wpc,                 \* per channel: where its websocket_endpoint call stands
    wsid,                \* per channel: the endpoint's session_id argument
    nmsg,                \* client messages handled so far, all channels together
    alive,               \* per channel: the peer is still there
    inbox,               \* per channel: the events handed to its transport
    bcasts,              \* per session: broadcast_to_session calls issued
    last,                \* per session: the last broadcast that returned
    raised,              \* per session: the broadcasts (by number) that raised
    twice                \* <<channel, session, k>>: connect() registered the pair
                         \* again, after k broadcasts to the session

vars == <<session_data, active_connections, bc, pc, tavus_result, wpc, wsid,
          nmsg, alive, inbox, bcasts, last, raised, twice>>

NoMsg == [type |-> "none", sessionId |-> 0, status |-> "absent",
          data |-> EmptyDict, text |-> "", n |-> 0]

NoIter == [st |-> "idle", stage |-> "none", msg |-> NoMsg, used |-> 0,
           todo |-> {}, failed |-> {}, start |-> {}]

NoLast == [n |-> 0, msg |-> NoMsg, start |-> {}, failed |-> {}]

Init ==
    /\ session_data = <<>>
    /\ active_connections = <<>>
    /\ bc = [s \in Sessions |-> NoIter]
    /\ pc = [s \in Sessions |-> "none"]
    /\ tavus_result = [s \in Sessions |-> NoResult]
    /\ wpc = [w \in Channels |-> "new"]
    /\ wsid = [w \in Channels |-> 0]
    /\ nmsg = 0
    /\ alive = [w \in Channels |-> TRUE]
    /\ inbox = [w \in Channels |-> <<>>]
    /\ bcasts = [s \in Sessions |-> 0]
    /\ last = [s \in Sessions |-> NoLast]
    /\ raised = [s \in Sessions |-> {}]
    /\ twice = {}

\* ------------------------------------------------- ConnectionManager
\* The channels registered for session s (none when s is no key).
Registered(ac, s) == IF s \in DOMAIN ac THEN ac[s] ELSE {}

\* connect that starts the session's set anew when the channel is a member of
\* it already (a registration that is not idempotent).
connect_reset(ac, w, s) ==
    IF w \in Registered(ac, s)
    THEN Put(ac, s, {w})
    ELSE Put(ac, s, Registered(ac, s) \cup {w})

\* ConnectionManager.connect after accept() returned: the set is created when
\* the key is absent, then the channel is added.
connect(ac, w, s) ==
    LET ac1 == IF s \notin DOMAIN ac THEN Put(ac, s, {}) ELSE ac
    IN  [ac1 EXCEPT ![s] = @ \cup {w}]

\* disconnect that leaves the key of an emptied set in the registry.
disconnect_keep(ac, w, s) ==
    IF s \in DOMAIN ac THEN [ac EXCEPT ![s] = @ \ {w}] ELSE ac

\* ConnectionManager.disconnect: discard the channel; drop the key of a set
\* that became empty.
disconnect(ac, w, s) ==
    IF s \in DOMAIN ac
    THEN LET ac1 == [ac EXCEPT ![s] = @ \ {w}]
         IN  IF ac1[s] = {} THEN Del(ac1, s) ELSE ac1
    ELSE ac

\* broadcast_to_session without its closing loop.
disconnect_none(ac, failed, s) == ac

\* broadcast_to_session's closing loop: disconnect every channel collected in
\* `disconnected`.
RECURSIVE disconnect_all(_, _, _)
disconnect_all(ac, failed, s) ==
    IF failed = {} THEN ac
    ELSE LET c == CHOOSE x \in failed : TRUE
         IN  disconnect_all(disconnect(ac, c, s), failed \ {c}, s)

\* websocket.send_json(m) on channel c: the message reaches the transport of a
\* live channel; on a dead one the call raises and nothing is delivered.
send_json(inb, c, m) ==
    IF alive[c] THEN [inb EXCEPT ![c] = Append(@, m)] ELSE inb

send_raises(c) == ~alive[c]

\* The lookup done with setdefault: an absent key gets an empty set.
broadcast_lookup_create(ac, s) ==
    [conns |-> IF s \in DOMAIN ac THEN ac[s] ELSE {},
     ac |-> IF s \in DOMAIN ac THEN ac ELSE Put(ac, s, {})]

\* The head of broadcast_to_session: the guard `session_id in
\* self.active_connections` and the set the loop iterates; the registry itself
\* is only read.
broadcast_lookup(ac, s) ==
    [conns |-> IF s \in DOMAIN ac THEN ac[s] ELSE {}, ac |-> ac]

\* The loop body leaving the loop at the first send that raises.
loop_body_break(it, c) ==
    [it EXCEPT !.todo = IF ~alive[c] THEN {} ELSE @ \ {c},
               !.failed = IF ~alive[c] THEN @ \cup {c} ELSE @]

\* The loop body with an except clause that only logs: a channel whose send
\* raised is not collected.
loop_body_forget(it, c) == [it EXCEPT !.todo = @ \ {c}]

\* One pass of the loop body for channel c: the except clause collects a
\* channel whose send raised and the loop goes on with the remaining ones.
loop_body(it, c) ==
    [it EXCEPT !.todo = @ \ {c},
               !.failed = IF send_raises(c) THEN @ \cup {c} ELSE @]

\* The set iterator's check on every next(): the set's size differs from the
\* size it had when the iterator was created.
size_changed(it, ac, s) == Cardinality(Registered(ac, s)) # it.used

\* A store that refuses an id it holds no record for.
store_known_only(sd, s, status, data) ==
    IF s \in DOMAIN sd
    THEN Put(sd, s, [k \in Keys |->
                       IF HasKey(data, k) THEN data[k]
                       ELSE IF k = "status" THEN status ELSE Missing(k)])
    ELSE sd

\* A store that writes the snapshot to every record it holds.
store_all(sd, s, status, data) ==
    [x \in DOMAIN sd \cup {s} |->
        [k \in Keys |-> IF HasKey(data, k) THEN data[k]
                         ELSE IF k = "status" THEN status ELSE Missing(k)]]

\* update_session_status: the snapshot stored for the session is the status
\* followed by the keys of data, {"status": status, **data}.
store(sd, s, status, data) ==
    Put(sd, s, [k \in Keys |->
                  IF HasKey(data, k) THEN data[k]
                  ELSE IF k = "status" THEN status ELSE Missing(k)])

\* update_data built with the status of a new session, whatever was stored.
update_data_stale(s, status, data, n) ==
    [type |-> "status", sessionId |-> s, status |-> "pending", data |-> data,
     text |-> "", n |-> n]

\* update_session_status's update_data, the event that is broadcast.
update_data(s, status, data, n) ==
    [type |-> "status", sessionId |-> s, status |-> status, data |-> data,
     text |-> "", n |-> n]

\* ------------------------------------------------------- the workflow
\* The second generating update sent with the status pending.
StageStatus_regress(stage) ==
    IF stage \in {"pending", "gen50"} THEN "pending"
    ELSE IF stage = "gen0" THEN "generating"
    ELSE IF stage = "ready" THEN "ready" ELSE "error"

\* The creation request storing generating instead of pending.
StageStatus_eager(stage) ==
    IF stage \in {"pending", "gen0", "gen50"} THEN "generating"
    ELSE IF stage = "ready" THEN "ready" ELSE "error"

\* The stages of generate_avatar / _process_avatar_generation, one per call of
\* update_session_status; "unit" is a call made by a direct caller.
StageStatus(stage) ==
    IF stage = "pending" THEN "pending"
    ELSE IF stage \in {"gen0", "gen50"} THEN "generating"
    ELSE IF stage = "ready" THEN "ready" ELSE "error"

\* Where the caller stands once update_session_status has returned: it runs
\* on to its next await (or to its end).
After(stage) ==
    IF stage = "pending" THEN "task"         \* create_task, return AvatarSession
    ELSE IF stage = "gen0" THEN "tavus"      \* await tavus_service.generate_avatar
    ELSE IF stage = "gen50" THEN "sleep"     \* await asyncio.sleep(2)
    ELSE IF stage \in {"ready", "error"} THEN "done"
    ELSE "none"

\* update_session_status(s, status, data) up to its first suspension: the
\* store is written, then broadcast_to_session either returns at once (no
\* channels) or sends to a first channel and is suspended in that send.
UpdateStart(s, stage, status, data) ==
    LET n == bcasts[s] + 1
        msg == update_data(s, status, data, n)
        look == broadcast_lookup(active_connections, s)
    IN  /\ session_data' = store(session_data, s, status, data)
        /\ bcasts' = [bcasts EXCEPT ![s] = n]
        /\ active_connections' = look.ac
        /\ IF look.conns # {}
           THEN \E c \in look.conns :
                  /\ inbox' = send_json(inbox, c, msg)
                  /\ bc' = [bc EXCEPT ![s] =
                              loop_body([st |-> "sending", stage |-> stage,
                                         msg |-> msg,
                                         used |-> Cardinality(look.conns),
                                         todo |-> look.conns, failed |-> {},
                                         start |-> look.conns], c)]
                  /\ pc' = [pc EXCEPT ![s] = "broadcast"]
           ELSE /\ inbox' = inbox
                /\ bc' = [bc EXCEPT ![s] = NoIter]
                /\ pc' = [pc EXCEPT ![s] = After(stage)]

\* An except clause that stores a fixed text in place of str(e).
ExceptHandler_generic(s, e) ==
    UpdateStart(s, "error", "error", Dict([error |-> "generation failed"]))

\* The except clause of _process_avatar_generation: the error update.
ExceptHandler(s, e) == UpdateStart(s, "error", "error", Dict([error |-> e]))

\* An exception leaves update_session_status during stage `stage`: in
\* generate_avatar it becomes an HTTP 500 and no task is created; in the try
\* block of _process_avatar_generation the except clause runs; inside that
\* except clause it ends the task.
Raise(s, stage, e) ==
    IF stage \in {"gen0", "gen50", "ready"}
    THEN ExceptHandler(s, e)
    ELSE /\ pc' = [pc EXCEPT ![s] = IF stage = "pending" THEN "http500"
                                    ELSE IF stage = "error" THEN "crashed"
                                    ELSE "none"]
         /\ bc' = [bc EXCEPT ![s] = NoIter]
         /\ UNCHANGED <<session_data, active_connections, inbox, bcasts>>

\* broadcast_to_session resumes after a send: the iterator's next() raises
\* RuntimeError when the set's size changed meanwhile; at the end of the set
\* the collected channels are disconnected and the call returns; otherwise the
\* next channel is sent to and the call is suspended in that send.
BroadcastStep(s) ==
    /\ bc[s].st = "sending"
    /\ LET it == bc[s]
       IN  IF size_changed(it, active_connections, s)
           THEN /\ raised' = [raised EXCEPT ![s] = @ \cup {it.msg.n}]
                /\ Raise(s, it.stage, SetChanged)
                /\ UNCHANGED last
           ELSE IF it.todo = {}
           THEN /\ active_connections' =
                       disconnect_all(active_connections, it.failed, s)
                /\ last' = [last EXCEPT ![s] =
                              [n |-> it.msg.n, msg |-> it.msg,
                               start |-> it.start, failed |-> it.failed]]
                /\ bc' = [bc EXCEPT ![s] = NoIter]
                /\ pc' = [pc EXCEPT ![s] = After(it.stage)]
                /\ UNCHANGED <<session_data, inbox, bcasts, raised>>
           ELSE \E c \in it.todo :
                  /\ inbox' = send_json(inbox, c, it.msg)
                  /\ bc' = [bc EXCEPT ![s] = loop_body(it, c)]
                  /\ UNCHANGED <<session_data, active_connections, pc,
                                 bcasts, last, raised>>
    /\ UNCHANGED <<tavus_result, wpc, wsid, nmsg, alive, twice>>

\* POST /avatar/generate: a fresh uuid4, the pending update, then the task is
\* created and the session is returned.
generate_avatar(s) ==
    /\ pc[s] = "none"
    /\ s \notin DOMAIN session_data
    /\ UpdateStart(s, "pending", StageStatus("pending"), EmptyDict)
    /\ UNCHANGED <<tavus_result, wpc, wsid, nmsg, alive, last, raised, twice>>

\* The first generating update reporting progress 70.
TaskStart_high(s) ==
    /\ pc[s] = "task"
    /\ UpdateStart(s, "gen0", StageStatus("gen0"), Dict([progress |-> 70]))
    /\ UNCHANGED <<tavus_result, wpc, wsid, nmsg, alive, last, raised, twice>>

\* _process_avatar_generation starts: the generating update with progress 0,
\* then the Tavus call is awaited.
TaskStart(s) ==
    /\ pc[s] = "task"
    /\ UpdateStart(s, "gen0", StageStatus("gen0"), Dict([progress |-> 0]))
    /\ UNCHANGED <<tavus_result, wpc, wsid, nmsg, alive, last, raised, twice>>

\* The Tavus call returns r: the generating update with progress 50 and the
\* replica id, then the sleep is awaited.
TavusReturns(s, r) ==
    /\ pc[s] = "tavus"
    /\ tavus_result' = [tavus_result EXCEPT ![s] = r]
    /\ UpdateStart(s, "gen50", StageStatus("gen50"),
                   Dict([progress |-> 50,
                         tavus_replica_id |-> r.tavus_replica_id]))
    /\ UNCHANGED <<wpc, wsid, nmsg, alive, last, raised, twice>>

\* The Tavus call raises e: the except clause runs.
TavusRaises(s, e) ==
    /\ pc[s] = "tavus"
    /\ ExceptHandler(s, e)
    /\ UNCHANGED <<tavus_result, wpc, wsid, nmsg, alive, last, raised, twice>>

\* The sleep is over and create_room returns room: the ready update.
RoomReturns(s, room) ==
    /\ pc[s] = "sleep"
    /\ UpdateStart(s, "ready", StageStatus("ready"),
                   Dict([progress |-> 100,
                         video_url |-> tavus_result[s].video_url,
                         room_name |-> room.room_name,
                         livekit_url |-> room.url]))
    /\ UNCHANGED <<tavus_result, wpc, wsid, nmsg, alive, last, raised, twice>>

\* A failure of create_room that is swallowed: the ready update is made
\* without a room.
RoomRaises_ready(s, e) ==
    /\ pc[s] = "sleep"
    /\ UpdateStart(s, "ready", StageStatus("ready"),
                   Dict([progress |-> 100,
                         video_url |-> tavus_result[s].video_url]))
    /\ UNCHANGED <<tavus_result, wpc, wsid, nmsg, alive, last, raised, twice>>

\* The sleep is over and create_room raises e: the except clause runs.
RoomRaises(s, e) ==
    /\ pc[s] = "sleep"
    /\ ExceptHandler(s, e)
    /\ UNCHANGED <<tavus_result, wpc, wsid, nmsg, alive, last, raised, twice>>

\* GET /avatar/status/{session_id}: the response is built from the path
\* parameter alone.
get_avatar_status(s) ==
    [code |-> 200, sessionId |-> s, status |-> "ready", progress |-> 100,
     videoUrl |-> "https://example.com/video.mp4"]

\* ------------------------------------------------ websocket_endpoint
connected_event(s) ==
    [type |-> "connected", sessionId |-> s, status |-> "absent",
     data |-> EmptyDict, text |-> "WebSocket connected", n |-> 0]

\* A status_request reply that carries the snapshot of a new session.
status_reply_initial(s, snapshot) ==
    [type |-> "status", sessionId |-> s, status |-> "absent",
     data |-> Dict([status |-> "pending"]), text |-> "", n |-> 0]

\* A status_request reply that carries no snapshot.
status_reply_empty(s, snapshot) ==
    [type |-> "status", sessionId |-> s, status |-> "absent",
     data |-> EmptyDict, text |-> "", n |-> 0]

\* The reply to a status_request: the stored snapshot is the event's data.
status_reply(s, snapshot) ==
    [type |-> "status", sessionId |-> s, status |-> "absent",
     data |-> snapshot, text |-> "", n |-> 0]

error_event(s, e) ==
    [type |-> "error", sessionId |-> s, status |-> "absent",
     data |-> EmptyDict, text |-> e, n |-> 0]

\* send_personal_message that sends nothing.
send_personal_message_drop(inb, w, m) == inb

\* ConnectionManager.send_personal_message: a send whose exception is logged
\* and swallowed.
send_personal_message(inb, w, m) == send_json(inb, w, m)

ClientMessages == {"status_request", "other_type", "invalid_json", "not_an_object"}

\* The k-th websocket_endpoint call is given channel k: a channel is a fresh
\* WebSocket object, used by one endpoint call only.
NextChannel(w) == \A v \in Channels : v < w => wpc[v] # "new"

\* websocket_endpoint up to its receive loop: manager.connect (accept, then
\* register) and the connected event.  accept() raises on a dead channel and
\* the endpoint ends before it registers anything.
WsConnect(w, s) ==
    /\ wpc[w] = "new"
    /\ NextChannel(w)
    /\ wsid' = [wsid EXCEPT ![w] = s]
    /\ IF alive[w]
       THEN /\ active_connections' = connect(active_connections, w, s)
            /\ inbox' = send_personal_message(inbox, w, connected_event(s))
            /\ wpc' = [wpc EXCEPT ![w] = "loop"]
       ELSE /\ wpc' = [wpc EXCEPT ![w] = "ended"]
            /\ UNCHANGED <<active_connections, inbox>>
    /\ UNCHANGED <<session_data, bc, pc, tavus_result, nmsg, alive, bcasts,
                   last, raised, twice>>

\* A receive loop whose status_request creates the record of a session that
\* has none.
WsReceive_create(w, m) ==
    /\ wpc[w] = "loop"
    /\ alive[w]
    /\ nmsg < MaxClientMsgs
    /\ nmsg' = nmsg + 1
    /\ session_data' =
         IF m = "status_request" /\ wsid[w] \notin DOMAIN session_data
         THEN Put(session_data, wsid[w], Dict([status |-> "pending"]))
         ELSE session_data
    /\ inbox' =
         IF m = "status_request" /\ wsid[w] \in DOMAIN session_data
         THEN [inbox EXCEPT ![w] = Append(@, [type |-> "status",
                  sessionId |-> wsid[w], status |-> "absent",
                  data |-> session_data[wsid[w]], text |-> "", n |-> 0])]
         ELSE inbox
    /\ UNCHANGED <<active_connections, bc, pc, tavus_result,
                   wpc, wsid, alive, bcasts, last, raised, twice>>

\* One turn of the receive loop on a client message.  A status_request is
\* answered from the store when the session has a record; invalid JSON is
\* logged; JSON that is no object makes message.get raise and an error event is
\* sent; anything else is ignored.
WsReceive(w, m) ==
    /\ wpc[w] = "loop"
    /\ alive[w]
    /\ nmsg < MaxClientMsgs
    /\ nmsg' = nmsg + 1
    /\ inbox' =
         IF m = "status_request" /\ wsid[w] \in DOMAIN session_data
         THEN send_personal_message(
                  inbox, w, status_reply(wsid[w], session_data[wsid[w]]))
         ELSE IF m = "not_an_object"
         THEN send_personal_message(
                  inbox, w, error_event(wsid[w], "no attribute get"))
         ELSE inbox
    /\ UNCHANGED <<session_data, active_connections, bc, pc, tavus_result,
                   wpc, wsid, alive, bcasts, last, raised, twice>>

\* receive_text raises WebSocketDisconnect: the inner handler breaks out of
\* the loop and the endpoint returns.
WsDisconnect(w) ==
    /\ wpc[w] = "loop"
    /\ ~alive[w]
    /\ wpc' = [wpc EXCEPT ![w] = "ended"]
    /\ UNCHANGED <<session_data, active_connections, bc, pc, tavus_result,
                   wsid, nmsg, alive, inbox, bcasts, last, raised, twice>>

\* The environment: a channel's peer goes away.
Dead == {w \in Channels : ~alive[w]}

ChannelFail(w) ==
    /\ alive[w]
    /\ Cardinality(Dead) < MaxFailures
    /\ alive' = [alive EXCEPT ![w] = FALSE]
    /\ UNCHANGED <<session_data, active_connections, bc, pc, tavus_result,
                   wpc, wsid, nmsg, inbox, bcasts, last, raised, twice>>

\* ------------------------------------------------------ the program
Next ==
    \/ \E s \in Sessions : generate_avatar(s)
    \/ \E s \in Sessions : TaskStart(s)
    \/ \E s \in Sessions, r \in TavusResults : TavusReturns(s, r)
    \/ \E s \in Sessions, e \in TavusErrors : TavusRaises(s, e)
    \/ \E s \in Sessions, room \in RoomResults : RoomReturns(s, room)
    \/ \E s \in Sessions, e \in RoomErrors : RoomRaises(s, e)
    \/ \E s \in Sessions : BroadcastStep(s)
    \/ \E w \in Channels, s \in Sessions : WsConnect(w, s)
    \/ \E w \in Channels, m \in ClientMessages : WsReceive(w, m)
    \/ \E w \in Channels : WsDisconnect(w)
    \/ \E w \in Channels : ChannelFail(w)

Spec == Init /\ [][Next]_vars

\* ------------------------------------- the manager under a direct caller
\* ConnectionManager and update_session_status called by one sequential
\* caller that awaits each call before it makes the next; channels still fail
\* at any moment, also in the middle of a broadcast.
UnitCalls ==
    { [status |-> "pending", data |-> EmptyDict],
      [status |-> "generating", data |-> Dict([progress |-> 50])],
      [status |-> "error", data |-> Dict([error |-> "e"])] }

RECURSIVE Sum(_, _)
Sum(f, S) ==
    IF S = {} THEN 0
    ELSE LET x == CHOOSE y \in S : TRUE IN f[x] + Sum(f, S \ {x})

CallerIdle == \A s \in Sessions : bc[s].st = "idle"

\* await manager.connect(w, s), w registered already or not.
MgrConnect(w, s) ==
    /\ CallerIdle
    /\ alive[w]
    /\ active_connections' = connect(active_connections, w, s)
    /\ twice' = IF /\ w \in Registered(active_connections, s)
                   /\ \A k \in 0..MaxUpdates : <<w, s, k>> \notin twice
                THEN twice \cup {<<w, s, bcasts[s]>>} ELSE twice
    /\ UNCHANGED <<session_data, bc, pc, tavus_result, wpc, wsid, nmsg,
                   alive, inbox, bcasts, last, raised>>

\* manager.disconnect(w, s).
MgrDisconnect(w, s) ==
    /\ CallerIdle
    /\ active_connections' = disconnect(active_connections, w, s)
    /\ twice' = {x \in twice : ~(x[1] = w /\ x[2] = s)}
    /\ UNCHANGED <<session_data, bc, pc, tavus_result, wpc, wsid, nmsg,
                   alive, inbox, bcasts, last, raised>>

\* await update_session_status(s, status, data).
MgrUpdate(s, call) ==
    /\ CallerIdle
    /\ Sum(bcasts, Sessions) < MaxUpdates
    /\ UpdateStart(s, "unit", call.status, call.data)
    /\ UNCHANGED <<tavus_result, wpc, wsid, nmsg, alive, last, raised, twice>>

NextMgr ==
    \/ \E w \in Channels, s \in Sessions : MgrConnect(w, s)
    \/ \E w \in Channels, s \in Sessions : MgrDisconnect(w, s)
    \/ \E s \in Sessions, call \in UnitCalls : MgrUpdate(s, call)
    \/ \E s \in Sessions : BroadcastStep(s)
    \/ \E w \in Channels : ChannelFail(w)

SpecMgr == Init /\ [][NextMgr]_vars

\* ------------------------------------------- one more observer
\* The application with one endpoint call more than Channels holds, on
\* channels that stay alive and send nothing: the workflows, the broadcasts
\* and the connecting observers.
FanChannels == 1..(NumChannels + 1)

InitFan ==
    /\ session_data = <<>>
    /\ active_connections = <<>>
    /\ bc = [s \in Sessions |-> NoIter]
    /\ pc = [s \in Sessions |-> "none"]
    /\ tavus_result = [s \in Sessions |-> NoResult]
    /\ wpc = [w \in FanChannels |-> "new"]
    /\ wsid = [w \in FanChannels |-> 0]
    /\ nmsg = 0
    /\ alive = [w \in FanChannels |-> TRUE]
    /\ inbox = [w \in FanChannels |-> <<>>]
    /\ bcasts = [s \in Sessions |-> 0]
    /\ last = [s \in Sessions |-> NoLast]
    /\ raised = [s \in Sessions |-> {}]
    /\ twice = {}

NextFan ==
    \/ \E s \in Sessions : generate_avatar(s)
    \/ \E s \in Sessions : TaskStart(s)
    \/ \E s \in Sessions, r \in TavusResults : TavusReturns(s, r)
    \/ \E s \in Sessions, e \in TavusErrors : TavusRaises(s, e)
    \/ \E s \in Sessions, room \in RoomResults : RoomReturns(s, room)
    \/ \E s \in Sessions, e \in RoomErrors : RoomRaises(s, e)
    \/ \E s \in Sessions : BroadcastStep(s)
    \/ \E w \in FanChannels, s \in Sessions : WsConnect(w, s)

SpecFan == InitFan /\ [][NextFan]_vars

\* ============================================================ claims
StatusEvents(inb) == SelectSeq(inb, LAMBDA m : m.type = "status")

\* The status an event carries: update_data has it at the top level, a
\* status_request reply inside its data.
EventStatus(m) == IF m.status # "absent" THEN m.status ELSE m.data["status"]

Count(seq, m) == Cardinality({i \in 1..Len(seq) : seq[i] = m})

Received(c, m) == Count(inbox[c], m) > 0

\* C1: once the store holds ready or error for a session, no later step
\* changes that session's status.
C1_TerminalFinal ==
    [][\A s \in DOMAIN session_data :
          Terminal(session_data[s]["status"])
          => session_data'[s]["status"] = session_data[s]["status"]]_vars

\* C2: the status events an observer receives are ordered: with pending <
\* generating < {ready, error}, no event's status index is below that of the
\* event received before it (stated for every observer, so also for those
\* registered before the workflow starts).
C2_OrderedEvents ==
    \A w \in Channels :
        LET ev == StatusEvents(inbox[w])
        IN  \A i \in 1..(Len(ev) - 1) :
                StatusIndex(EventStatus(ev[i])) <= StatusIndex(EventStatus(ev[i + 1]))

\* C2 witness: an observer registered before the workflow started has received
\* the whole run pending, generating, generating, ready.
C2_Witness ==
    \E w \in Channels :
        LET ev == StatusEvents(inbox[w])
        IN  /\ Len(ev) = 4
            /\ \A i \in 1..4 : ev[i].n = i
            /\ ev[1].status = "pending" /\ ev[2].status = "generating"
            /\ ev[3].status = "generating" /\ ev[4].status = "ready"

\* C3: a broadcast in which the send to one channel fails still delivers the
\* event to every other channel registered for the session whose send does not
\* fail, and the call does not raise.
C3_BroadcastIsolatesFailures ==
    \A s \in Sessions :
        /\ raised[s] = {}
        /\ last[s].n > 0
           => \A c \in last[s].start \ last[s].failed : Received(c, last[s].msg)

\* C3 witness: a broadcast has returned in which one send failed and another
\* registered channel received the event.
C3_Witness ==
    \E s \in Sessions :
        /\ last[s].failed # {}
        /\ \E c \in last[s].start \ last[s].failed : Received(c, last[s].msg)

\* C4: a channel whose send failed during a broadcast is not in the registry
\* for that session once the broadcast has returned, and the next broadcast to
\* the session does not send to it.
C4_FailedChannelPruned ==
    \A s \in Sessions :
        /\ last[s].failed \cap Registered(active_connections, s) = {}
        /\ bc[s].st = "sending" => bc[s].start \cap last[s].failed = {}

\* C4 witness: after a broadcast with a failed send has returned, the next
\* broadcast to the same session is under way.
C4_Witness ==
    \E s \in Sessions :
        /\ last[s].failed # {}
        /\ bc[s].st = "sending"
        /\ bc[s].msg.n = last[s].n + 1

\* C5: registering a channel that is registered for the session already leaves
\* the registry as it was, and a broadcast that returned has delivered its
\* event exactly once to each channel whose send did not fail.
C5_RegisterIdempotent ==
    /\ [][\A w \in Channels, s \in Sessions :
            (MgrConnect(w, s) /\ w \in Registered(active_connections, s))
            => active_connections' = active_connections]_vars
    /\ [](\A s \in Sessions :
            last[s].n > 0
            => \A c \in last[s].start \ last[s].failed :
                   Count(inbox[c], last[s].msg) = 1)

\* C5 witness: a channel was registered twice for a session and a later
\* broadcast to the session returned with one delivery to it.
C5_Witness ==
    \E x \in twice :
        /\ last[x[2]].n > x[3]
        /\ x[1] \in last[x[2]].start \ last[x[2]].failed
        /\ Count(inbox[x[1]], last[x[2]].msg) = 1

\* C6: a broadcast to a session id that is no key of the registry does not
\* raise, sends nothing to any channel and leaves the registry unchanged.
C6_NoObserverNoOp ==
    [][\A s \in Sessions :
          (bcasts'[s] = bcasts[s] + 1 /\ s \notin DOMAIN active_connections)
          => /\ inbox' = inbox
             /\ active_connections' = active_connections
             /\ raised' = raised
             /\ bc'[s] = NoIter
             /\ pc'[s] \notin {"http500", "crashed"}]_vars

\* C6 witness: a session nobody ever observed has had broadcasts, while a
\* channel is registered for another session.
C6_Witness ==
    \E s \in Sessions :
        /\ bcasts[s] >= 2
        /\ s \notin DOMAIN active_connections
        /\ \A w \in Channels : wsid[w] # s
        /\ DOMAIN active_connections # {}

\* C7: a store update keeps every payload key an earlier update wrote: no key
\* of a session's snapshot is ever removed.
C7_KeysPersist ==
    [][\A s \in DOMAIN session_data : \A k \in Keys :
          HasKey(session_data[s], k) => HasKey(session_data'[s], k)]_vars

\* The snapshot update_session_status(s, status, data) is to leave for a
\* session without a record.
Created(status, data) ==
    [k \in Keys |-> IF k = "status" THEN status ELSE data[k]]

C9_QueryReturnsStore ==
    \A s \in DOMAIN session_data :
        /\ get_avatar_status(s).status = session_data[s]["status"]
        /\ get_avatar_status(s).progress = session_data[s]["progress"]

\* C10: a status query for a session id that was never created yields 404.
C10_UnknownIs404 ==
    \A s \in Sessions \ DOMAIN session_data : get_avatar_status(s).code = 404

\* C11: when the Tavus call raises with text E, the except clause stores the
\* snapshot {status: error, error: E} and calls broadcast_to_session with that
\* snapshot for the channels registered then; from there on the stored snapshot
\* stays as it is, the task only finishes that broadcast and ends, and
\* create_room is never reached (the task never holds a Tavus result and never
\* stands at the room call).
C11_TavusFailureEndsInError ==
    /\ [][\A s \in Sessions, e \in TavusErrors :
            TavusRaises(s, e)
            => /\ session_data'[s] = Dict([status |-> "error", error |-> e])
               /\ bcasts'[s] = bcasts[s] + 1
               /\ pc'[s] \in {"broadcast", "done"}
               /\ Registered(active_connections, s) # {}
                  => /\ bc'[s].stage = "error"
                     /\ bc'[s].msg.status = "error"
                     /\ bc'[s].msg.data = Dict([error |-> e])
                     /\ bc'[s].start = Registered(active_connections, s)]_vars
    /\ [][\A s \in DOMAIN session_data :
            session_data[s]["error"] \in TavusErrors
            => /\ session_data'[s] = session_data[s]
               /\ pc'[s] \in {"broadcast", "done", "crashed"}
               /\ pc'[s] = "broadcast" => bc'[s].stage = "error"
               /\ tavus_result'[s] = NoResult]_vars

\* C11 witness: a workflow has ended after the Tavus call failed with "quota
\* exceeded": the store holds the error snapshot and an observer received it.
C11_Witness ==
    \E s \in DOMAIN session_data :
        /\ pc[s] = "done"
        /\ session_data[s] = Dict([status |-> "error", error |-> "quota exceeded"])
        /\ last[s].msg.status = "error"
        /\ \E c \in last[s].start : Received(c, last[s].msg)

\* C12: once the workflow of a session has ended after the ready update was
\* made (generation returned artifact A, create_room returned room R, observers
\* were sent the ready event), the stored snapshot has status ready, progress
\* 100, artifact URL A and room name R.
C12_FinalSnapshotReady ==
    \A s \in DOMAIN session_data : \A w \in Channels :
        \A i \in 1..Len(inbox[w]) :
            LET m == inbox[w][i]
            IN  (/\ m.type = "status" /\ m.sessionId = s /\ m.status = "ready"
                 /\ pc[s] \in {"done", "crashed"})
                => /\ session_data[s]["status"] = "ready"
                   /\ session_data[s]["progress"] = 100
                   /\ session_data[s]["video_url"] = tavus_result[s].video_url
                   /\ session_data[s]["room_name"] = m.data["room_name"]

\* C13: no session is stuck: every session with a record in the store either
\* has a terminal status or its request / workflow still has a step to take
\* (which, with provider calls that return and a task that is scheduled, it
\* takes).
C13_NoStuckSession ==
    \A s \in DOMAIN session_data :
        \/ Terminal(session_data[s]["status"])
        \/ pc[s] \in {"task", "tavus", "sleep", "broadcast"}

\* C14: the first event a channel receives is the connected event of its
\* session id, and every registered channel has been sent it: no status event
\* comes before it, also when a broadcast for the session is in progress while
\* the channel connects.
C14_ConnectedFirst ==
    /\ \A w \in Channels :
          inbox[w] # <<>>
          => /\ inbox[w][1].type = "connected"
             /\ inbox[w][1].sessionId = wsid[w]
    /\ \A s \in DOMAIN active_connections : \A w \in active_connections[s] :
          inbox[w] # <<>>

\* C14 witness: a channel connected while a broadcast for its session was in
\* progress (that broadcast raised); it received connected and then the status
\* event of the next broadcast.
C14_Witness ==
    \E w \in Channels :
        /\ Len(inbox[w]) >= 2
        /\ inbox[w][1].type = "connected"
        /\ inbox[w][2].type = "status"
        /\ (inbox[w][2].n - 1) \in raised[wsid[w]]

\* C15: a status_request from a connected observer whose session has a record
\* appends one status event to that observer's channel, carrying the snapshot
\* the store holds at that moment, and no other channel receives anything.
C15_StatusRequestReply ==
    [][\A w \in Channels :
          (WsReceive(w, "status_request") /\ wsid[w] \in DOMAIN session_data)
          => /\ Len(inbox'[w]) = Len(inbox[w]) + 1
             /\ \A i \in 1..Len(inbox[w]) : inbox'[w][i] = inbox[w][i]
             /\ inbox'[w][Len(inbox'[w])].type = "status"
             /\ inbox'[w][Len(inbox'[w])].sessionId = wsid[w]
             /\ inbox'[w][Len(inbox'[w])].data = session_data[wsid[w]]
             /\ \A v \in Channels \ {w} : inbox'[v] = inbox[v]]_vars

\* C15 witness: of two observers registered for a session, one has received
\* the reply to its status_request (a stored snapshot) and the other has not
\* received any reply.
C15_Witness ==
    \E w \in Channels, v \in Channels :
        /\ w # v /\ wsid[w] = wsid[v]
        /\ {w, v} \subseteq Registered(active_connections, wsid[w])
        /\ \E i \in 1..Len(inbox[w]) :
              /\ inbox[w][i].type = "status" /\ inbox[w][i].n = 0
              /\ inbox[w][i].data = session_data[wsid[w]]
        /\ \A i \in 1..Len(inbox[v]) :
              ~(inbox[v][i].type = "status" /\ inbox[v][i].n = 0)

\* Channel c was registered for session s before the session's first update:
\* it received connected and then the event of the first broadcast.
HasFirst(c, s) ==
    /\ Len(inbox[c]) >= 2
    /\ inbox[c][1].type = "connected" /\ inbox[c][1].sessionId = s
    /\ inbox[c][2].type = "status" /\ inbox[c][2].n = 1

\* C16: two observers that connected to a session before its first update,
\* on channels that never fail, have received the same sequence of events
\* whenever no broadcast for the session is in progress.
C16_IdenticalSequences ==
    \A s \in Sessions : \A a \in FanChannels, b \in FanChannels :
        (bc[s].st = "idle" /\ HasFirst(a, s) /\ HasFirst(b, s))
        => inbox[a] = inbox[b]

\* C17: when the creation request has returned (the task is created and has
\* not run yet), the store holds the record {status: pending} for the id, the
\* pending update is the only one made and no provider call has returned; a
\* status other than pending is only ever stored once the task has started.
C17_CreationReturnsPending ==
    \A s \in Sessions :
        /\ pc[s] = "task"
           => /\ s \in DOMAIN session_data
              /\ session_data[s] = Dict([status |-> "pending"])
              /\ tavus_result[s] = NoResult
              /\ bcasts[s] = 1
        /\ (s \in DOMAIN session_data /\ session_data[s]["status"] # "pending")
           => /\ pc[s] \in {"tavus", "sleep", "broadcast", "done", "crashed"}
              /\ pc[s] = "broadcast" => bc[s].stage # "pending"

\* C17 witness: a creation request has returned after its pending event was
\* delivered to an observer; the task has not started.
C17_Witness ==
    \E s \in Sessions :
        /\ pc[s] = "task"
        /\ last[s].n = 1
        /\ \E c \in last[s].start : Received(c, last[s].msg)

\* C18: the snapshot stored when a session fails is the snapshot stored before
\* the failure plus an error field: every payload key keeps its value.
C18_ErrorKeepsSnapshot ==
    [][\A s \in DOMAIN session_data :
          (session_data[s]["status"] # "error" /\ session_data'[s]["status"] = "error")
          => /\ HasKey(session_data'[s], "error")
             /\ \A k \in Keys \ {"status", "error"} :
                    session_data'[s][k] = session_data[s][k]]_vars

\* C19: a channel whose endpoint call has ended (the client disconnected) is
\* in no session's set of the registry.
C19_EndedChannelUnregistered ==
    \A w \in Channels :
        wpc[w] = "ended"
        => \A s \in DOMAIN active_connections : w \notin active_connections[s]

\* C20: no key of the registry maps to an empty set, and unregistering the
\* last channel of a session removes the session's key.
C20_NoEmptySet ==
    /\ [](\A s \in DOMAIN active_connections : active_connections[s] # {})
    /\ [][\A w \in Channels, s \in Sessions :
            (MgrDisconnect(w, s) /\ Registered(active_connections, s) = {w})
            => s \notin DOMAIN active_connections']_vars

\* C20 witness: the only channel registered for a session failed in a
\* broadcast, was pruned, and the session's key is gone.
C20_Witness ==
    \E s \in Sessions :
        /\ last[s].n > 0
        /\ last[s].start # {}
        /\ last[s].start = last[s].failed
        /\ s \notin DOMAIN active_connections

\* C21: the creation call update_session_status(id, "pending") for an id
\* that has a record already is refused: the store, and so the record's status
\* and payload, stay as they were.
C21_DuplicateCreateRejected ==
    [][\A s \in Sessions :
          (/\ MgrUpdate(s, [status |-> "pending", data |-> EmptyDict])
           /\ s \in DOMAIN session_data)
          => session_data' = session_data]_vars

\* C22: a stored status only changes along pending -> generating,
\* generating -> ready, pending -> error, generating -> error.
C22_StateMachine ==
    [][\A s \in DOMAIN session_data :
          session_data'[s]["status"] # session_data[s]["status"]
          => <<session_data[s]["status"], session_data'[s]["status"]>> \in
                 { <<"pending", "generating">>, <<"generating", "ready">>,
                   <<"pending", "error">>, <<"generating", "error">> }]_vars

\* C23: every write of a session's record is made together with exactly one
\* broadcast call and every broadcast call with a write; the event of a
\* broadcast carries the status just written, and while the broadcast is in
\* progress nothing else writes the record.
C23_WriteThenBroadcast ==
    /\ [](\A s \in Sessions :
            bc[s].st = "sending"
            => /\ s \in DOMAIN session_data
               /\ bc[s].msg.status = session_data[s]["status"]
               /\ bc[s].msg.sessionId = s
               /\ bc[s].msg.n = bcasts[s])
    /\ [][\A s \in Sessions :
            LET written == /\ s \in DOMAIN session_data'
                           /\ \/ s \notin DOMAIN session_data
                              \/ session_data'[s] # session_data[s]
            IN  /\ written <=> bcasts'[s] # bcasts[s]
                /\ bcasts'[s] # bcasts[s]
                   => /\ bcasts'[s] = bcasts[s] + 1
                      /\ Registered(active_connections, s) # {}
                         => /\ bc'[s].st = "sending"
                            /\ bc'[s].msg.n = bcasts'[s]
                            /\ bc'[s].msg.status = session_data'[s]["status"]]_vars

\* C23 witness: the third update of a session has been stored and its
\* broadcast, carrying the stored status, is in progress.
C23_Witness ==
    \E s \in DOMAIN session_data :
        /\ bc[s].st = "sending"
        /\ bcasts[s] = 3
        /\ bc[s].msg.status = "generating"
        /\ session_data[s]["progress"] = 50

C25_RegistrationDuringBroadcast ==
    \A s \in Sessions :
        /\ raised[s] = {}
        /\ last[s].n > 0
           => \A c \in last[s].start \ last[s].failed :
                  Count(inbox[c], last[s].msg) >= 1

\* C26: a step made for session A (its request, its workflow, its broadcast
\* with the pruning of failed channels, a connect to A) leaves the set of
\* observers and the stored snapshot of every other session B unchanged and
\* delivers nothing to an observer of B; every event a channel holds is an
\* event of the session it connected to.
C26_SessionsIndependent ==
    /\ [](\A w \in Channels : \A i \in 1..Len(inbox[w]) :
            inbox[w][i].sessionId = wsid[w])
    /\ [][\A A \in Sessions, B \in Sessions :
            LET StepOfA == \/ pc'[A] # pc[A]
                           \/ bc'[A] # bc[A]
                           \/ bcasts'[A] # bcasts[A]
                           \/ \E w \in Channels : WsConnect(w, A)
            IN  (A # B /\ StepOfA)
                => /\ B \in DOMAIN active_connections'
                      <=> B \in DOMAIN active_connections
                   /\ Registered(active_connections', B)
                      = Registered(active_connections, B)
                   /\ B \in DOMAIN session_data' <=> B \in DOMAIN session_data
                   /\ B \in DOMAIN session_data
                      => session_data'[B] = session_data[B]
                   /\ \A w \in Channels :
                         wsid[w] = B => inbox'[w] = inbox[w]]_vars

\* C26 witness: two sessions have records and an observer each; a broadcast of
\* one of them returned and reached its observer after the other session had
\* broadcasts of its own.
C26_Witness ==
    \E A \in DOMAIN session_data, B \in DOMAIN session_data :
        /\ A # B
        /\ last[A].n > 0
        /\ \E c \in last[A].start : Received(c, last[A].msg)
        /\ bcasts[B] > 0
        /\ Registered(active_connections, B) # {}

\* C27: within a session progress never decreases: of two stored snapshots,
\* and of two status events an observer received, that both carry progress,
\* the later one's is not smaller; a snapshot without progress only follows
\* one with progress as the final error snapshot; a ready snapshot or event
\* carries progress 100.
C27_ProgressMonotone ==
    /\ [](\A w \in Channels :
            LET ev == StatusEvents(inbox[w])
            IN  \A j \in 1..Len(ev) :
                  /\ EventStatus(ev[j]) = "ready" => ev[j].data["progress"] = 100
                  /\ \A i \in 1..(j - 1) :
                        (HasKey(ev[i].data, "progress") /\ HasKey(ev[j].data, "progress"))
                        => ev[i].data["progress"] <= ev[j].data["progress"])
    /\ [](\A s \in DOMAIN session_data :
            session_data[s]["status"] = "ready" => session_data[s]["progress"] = 100)
    /\ [][\A s \in DOMAIN session_data :
            /\ (HasKey(session_data[s], "progress") /\ HasKey(session_data'[s], "progress"))
               => session_data[s]["progress"] <= session_data'[s]["progress"]
            /\ (HasKey(session_data[s], "progress") /\ ~HasKey(session_data'[s], "progress"))
               => session_data'[s]["status"] = "error"
            /\ session_data[s]["status"] = "error"
               => session_data'[s] = session_data[s]]_vars

\* C27 witness: an observer has received the events with progress 0, 50 and
\* 100 and the store holds the ready snapshot.
C27_Witness ==
    \E w \in Channels :
        LET ev == StatusEvents(inbox[w])
        IN  /\ Len(ev) >= 3
            /\ ev[Len(ev) - 2].data["progress"] = 0
            /\ ev[Len(ev) - 1].data["progress"] = 50
            /\ ev[Len(ev)].data["progress"] = 100
            /\ session_data[wsid[w]]["progress"] = 100

\* C28: when create_room raises with text E after the Tavus call returned,
\* the stored status goes from generating to error, the snapshot stored and
\* the event broadcast carry E as their error field, and the record is not
\* written again, so the session never becomes ready.
C28_RoomFailureEndsInError ==
    /\ [][\A s \in Sessions, e \in RoomErrors :
            RoomRaises(s, e)
            => /\ session_data[s]["status"] = "generating"
               /\ tavus_result[s] \in TavusResults
               /\ session_data'[s] = Dict([status |-> "error", error |-> e])
               /\ bcasts'[s] = bcasts[s] + 1
               /\ Registered(active_connections, s) # {}
                  => /\ bc'[s].msg.status = "error"
                     /\ bc'[s].msg.data = Dict([error |-> e])]_vars
    /\ [][\A s \in DOMAIN session_data :
            session_data[s]["error"] \in RoomErrors
            => /\ session_data'[s] = session_data[s]
               /\ pc'[s] \in {"broadcast", "done", "crashed"}]_vars

\* C28 witness: a workflow ended after create_room failed: the store holds
\* the error snapshot "room failed" and an observer received, after the
\* generating event with progress 50, the error event.
C28_Witness ==
    \E s \in DOMAIN session_data :
        /\ pc[s] = "done"
        /\ session_data[s] = Dict([status |-> "error", error |-> "room failed"])
        /\ \E c \in last[s].start :
              \E i \in 1..(Len(inbox[c]) - 1) :
                  /\ inbox[c][i].status = "generating"
                  /\ inbox[c][i].data["progress"] = 50
                  /\ inbox[c][i + 1] = last[s].msg
                  /\ inbox[c][i + 1].data["error"] = "room failed"

\* C29: connecting, a client message of any kind, a client disconnect, a
\* channel failure and the return of a broadcast with its pruning leave the
\* store unchanged; a step that changes the store is one call of
\* update_session_status and changes the record of its session only.
C29_OnlyOrchestratorWrites ==
    [][/\ \A w \in Channels, s \in Sessions :
             WsConnect(w, s) => session_data' = session_data
       /\ \A w \in Channels, m \in ClientMessages :
             WsReceive(w, m) => session_data' = session_data
       /\ \A w \in Channels :
             (WsDisconnect(w) \/ ChannelFail(w)) => session_data' = session_data
       /\ \A s \in Sessions :
             (bc[s].st = "sending" /\ last'[s] # last[s])
             => session_data' = session_data
       /\ session_data' # session_data
          => \E s \in Sessions :
                /\ bcasts'[s] = bcasts[s] + 1
                /\ wpc' = wpc /\ nmsg' = nmsg /\ alive' = alive
                /\ \A x \in DOMAIN session_data \ {s} :
                       session_data'[x] = session_data[x]]_vars

\* C29 witness: a session has a record, a status_request was answered, a
\* failed channel was pruned by a broadcast of the session and an endpoint
\* call has ended.
C29_Witness ==
    \E s \in DOMAIN session_data :
        /\ last[s].failed # {}
        /\ \E w \in Channels : wpc[w] = "ended"
        /\ \E v \in Channels : \E i \in 1..Len(inbox[v]) :
              inbox[v][i].type = "status" /\ inbox[v][i].n = 0

\* C30: the status in a status_request reply is not earlier, in the order
\* pending < generating < {ready, error}, than the status of any status event
\* the observer received before the reply.
C30_ReplyNotBackwards ==
    \A w \in Channels : \A j \in 1..Len(inbox[w]) :
        (inbox[w][j].type = "status" /\ inbox[w][j].n = 0)
        => \A i \in 1..(j - 1) :
               inbox[w][i].type = "status"
               => StatusIndex(EventStatus(inbox[w][i]))
                  <= StatusIndex(inbox[w][j].data["status"])

\* C30 witness: an observer that had received the pending event asked for the
\* status while the first generating broadcast was in progress: the reply
\* (generating) reached it before that broadcast's event did.
C30_Witness ==
    \E w \in Channels : \E j \in 2..(Len(inbox[w]) - 1) :
        /\ inbox[w][j].type = "status" /\ inbox[w][j].n = 0
        /\ inbox[w][j].data["status"] = "generating"
        /\ inbox[w][j - 1].status = "pending"
        /\ inbox[w][j + 1].n = 2

====
